---- MODULE Spec2Model ----
(***************************************************************************)
(* SIMD-friendly trial division of simdprime.c: the residue state          *)
(* (struct PP_Mod16bit), the 16-bit lane primitives, the block testers,    *)
(* the advance operators and the plain / twin / safe search drivers.       *)
(*                                                                         *)
(* Lanes are 16-bit unsigned integers (arithmetic modulo 2^16).  The       *)
(* source handles lanes in blocks of 64; the model keeps the block         *)
(* structure of the three table tiers (9, 29 and 54 blocks) and scales     *)
(* the number of lanes per block (BlockLanes) and the width of the         *)
(* fast-skip counter (SkipBits, 14 in the source).                         *)
(***************************************************************************)
EXTENDS Integers, Sequences, FiniteSets, TLC

\* ------------------------------------------------------------------ bounds
BlockLanes == 2        \* lanes per block (64 in the source)
SkipBits   == 3        \* fast-skip loop stops once skip >> SkipBits (14 in the source)
MaxCount   == 2        \* largest 'count' handed to a driver call
MaxCalls   == 2        \* driver calls made on one state
MinStart   == 1000001  \* smallest starting value Q
MaxScan    == 600      \* a call is followed until it has advanced this far

\* ------------------------------------------------------- program constants
S_BLOCKS == 9          \* 576  / 64
M_BLOCKS == 29         \* 1856 / 64
L_BLOCKS == 54         \* 3456 / 64, SIMDPRIME_COUNT

SIMD_PRIMETYPE_TWIN    == 1
SIMD_PRIMETYPE_SAFE    == 2
SIMD_PRIMETYPE_FIPS186 == 4
SIMD_PRIMETYPE_PLAIN   == 8
SIMD_PRIMETYPE_MASK    == 255

SIMD_SEARCHTABLE_S     == 256
SIMD_SEARCHTABLE_M     == 512
SIMD_SEARCHTABLE_L     == 768
SIMD_SEARCHTABLE_MASK  == 65280

U16  == 65536          \* 2^16, the lane modulus
HALF == 32768          \* UINT16_C(0x8000)

SIMDPRIME_COUNT == L_BLOCKS * BlockLanes
Lanes           == 0 .. (SIMDPRIME_COUNT - 1)

\* lanes of block b (the source passes &(modn[64*b]), &(inv[64*b]), ...)
BlockIdx(b) == (b * BlockLanes) .. ((b + 1) * BlockLanes - 1)

\* ------------------------------------------------ small-prime tables
IsPrime(n) == n > 1 /\ \A d \in 2 .. (n - 1) : (d * d > n) \/ (n % d # 0)

\* the primes from 5 on that can occur in a table of SIMDPRIME_COUNT entries
PrimeSet == {n \in 5 .. (12 * SIMDPRIME_COUNT) : IsPrime(n)}

\* firstprimes[i]: the i-th odd prime starting at 5
firstprimes ==
    [i \in Lanes |-> CHOOSE p \in PrimeSet : Cardinality({q \in PrimeSet : q < p}) = i]

\* 16x16 -> 16 bit wrapping product, computed bytewise to stay within
\* the range of the model checker's integers
Mul16(a, b) == (((a % 256) * b) + ((((a \div 256) * b) % 256) * 256)) % U16

\* inverse of an odd p modulo 2^16 (Newton iteration, 3 -> 6 -> 12 -> 24 bits)
InvStep(p, x) == Mul16(x, (U16 + 2 - Mul16(p, x)) % U16)
Inv16(p) == InvStep(p, InvStep(p, InvStep(p, p % U16)))

firstprimes_inverse_simd  == [i \in Lanes |-> Inv16(firstprimes[i])]
firstprimes_mullimit_simd == [i \in Lanes |-> (U16 - 1) \div firstprimes[i]]

\* m2r: the negated largest multiple of the prime that is <= 0x8000
firstprimes_mod2range_simd ==
    [i \in Lanes |-> U16 - firstprimes[i] * (HALF \div firstprimes[i])]

\* ------------------------------------------------ 16-bit lane primitives
\* simd_mul16x16 that multiplies the low byte of v only
simd_mul16x16_lo8(v, coeff) == Mul16(v % 256, coeff)

simd_mul16x16(v, coeff) == Mul16(v, coeff)

\* le16mask with a strict comparison
le16mask_lt(a, b) == IF a < b THEN U16 - 1 ELSE 0

le16mask(a, b) == IF a <= b THEN U16 - 1 ELSE 0

simd_advance16x16_inpl(v, add) == (v + add) % U16

\* add_if_ge without the comparison
add_if_ge_always(val, limit, add) == (val + add) % U16

add_if_ge(val, limit, add) == (val + (IF limit <= val THEN add ELSE 0)) % U16

\* m2range_1unit that leaves 0x8000 itself alone
m2range_1unit_above(val, m2r) == add_if_ge(val, HALF + 1, m2r)

m2range_1unit(val, m2r) == add_if_ge(val, HALF, m2r)

\* simd_shladd16x16 without the shift
simd_shladd16x16_noshift(v, add) == (v + add) % U16

simd_shladd16x16(v, add) == (((v * 2) % U16) + add) % U16

simd_min16x16(a, b) == IF a < b THEN a ELSE b

\* simd_spcmp16x16 without the 2x+1 term
simd_spcmp16x16_x_only(v, inv, limit) == le16mask(v, limit)

\* 0xffff if the prime divides x or 2x+1, with v = x * 1/prime
simd_spcmp16x16(v, inv, limit) ==
    le16mask(simd_min16x16(v, simd_shladd16x16(v, inv)), limit)

\* simd_cmp16x16_twin without the n+2 term
simd_cmp16x16_twin_n_only(u, inv, limit) == le16mask(u, limit)

\* 0xffff if the prime divides n or n+2, with u = n * 1/prime
simd_cmp16x16_twin(u, inv, limit) ==
    le16mask(simd_min16x16(simd_shladd16x16(inv, u), u), limit)

\* ------------------------------------------------ block primitives
\* the OR of all lanes of the block is zero
simd_is_all0x64x16_inpl(tmp) == \A i \in DOMAIN tmp : tmp[i] = 0

simd_nofactor64x16(modn, b) ==
    simd_is_all0x64x16_inpl(
        [i \in BlockIdx(b) |->
            le16mask(simd_mul16x16(modn[i], firstprimes_inverse_simd[i]),
                     firstprimes_mullimit_simd[i])])

simd_no_spfactor64x16(modn, b) ==
    simd_is_all0x64x16_inpl(
        [i \in BlockIdx(b) |->
            simd_spcmp16x16(simd_mul16x16(modn[i], firstprimes_inverse_simd[i]),
                            firstprimes_inverse_simd[i],
                            firstprimes_mullimit_simd[i])])

simd_no_twinfactor64x16(modn, b) ==
    simd_is_all0x64x16_inpl(
        [i \in BlockIdx(b) |->
            simd_cmp16x16_twin(simd_mul16x16(modn[i], firstprimes_inverse_simd[i]),
                               firstprimes_inverse_simd[i],
                               firstprimes_mullimit_simd[i])])

\* the advance without the fold-back
AdvanceLane_nofold(v, i, adv) == simd_advance16x16_inpl(v, adv)

\* one lane of simd_advance16x16_inpl followed by simd_m2range16x16_inpl
AdvanceLane(v, i, adv) ==
    m2range_1unit(simd_advance16x16_inpl(v, adv), firstprimes_mod2range_simd[i])

\* v[] += adv, then the m2r fold-back, on block b
simd_advance64x16_m2r_inpl(modn, b, adv) ==
    [i \in DOMAIN modn |->
        IF i \in BlockIdx(b) THEN AdvanceLane(modn[i], i, adv) ELSE modn[i]]

\* the unrolled sequences of block calls: blocks lo .. hi-1 (disjoint lanes)
AdvanceBlocks(modn, lo, hi, adv) ==
    [i \in DOMAIN modn |->
        IF (i \div BlockLanes) \in lo .. (hi - 1)
        THEN AdvanceLane(modn[i], i, adv) ELSE modn[i]]

\* ------------------------------------------------ plain testers
simd_nofactor_first(ps)  == simd_nofactor64x16(ps.modn, 0)
simd_nofactor_rest_s(ps) == \A b \in 1 .. (S_BLOCKS - 1) : simd_nofactor64x16(ps.modn, b)
simd_nofactor_rest_l(ps) == \A b \in M_BLOCKS .. (L_BLOCKS - 1) : simd_nofactor64x16(ps.modn, b)

simd_has_no_factor(ps)   == simd_nofactor_first(ps) /\ simd_nofactor_rest_s(ps)
simd_has_no_factor_l(ps) == simd_nofactor_first(ps) /\ simd_nofactor_rest_l(ps)

\* ------------------------------------------------ safe-prime testers
simd_no_spfactor_rest1(modn) ==
    \A b \in 1 .. (S_BLOCKS - 1) : simd_no_spfactor64x16(modn, b)
simd_no_spfactor_rest_m(modn) ==
    /\ simd_no_spfactor_rest1(modn)
    /\ \A b \in S_BLOCKS .. (M_BLOCKS - 1) : simd_no_spfactor64x16(modn, b)
simd_no_spfactor_rest_l(modn) ==
    /\ simd_no_spfactor_rest_m(modn)
    /\ \A b \in M_BLOCKS .. (L_BLOCKS - 1) : simd_no_spfactor64x16(modn, b)

\* ------------------------------------------------ twin-prime testers
simd_no_twinfactor_rest(modn) ==
    \A b \in 1 .. (S_BLOCKS - 1) : simd_no_twinfactor64x16(modn, b)
simd_no_twinfactor_rest_m(modn) ==
    /\ simd_no_twinfactor_rest(modn)
    /\ \A b \in S_BLOCKS .. (M_BLOCKS - 1) : simd_no_twinfactor64x16(modn, b)
simd_no_twinfactor_rest_l(modn) ==
    /\ simd_no_twinfactor_rest_m(modn)
    /\ \A b \in M_BLOCKS .. (L_BLOCKS - 1) : simd_no_twinfactor64x16(modn, b)

\* ------------------------------------------------ advance operators
simd_advance_remainders_first(ps, adv) ==
    [ps EXCEPT !.modn = simd_advance64x16_m2r_inpl(@, 0, adv % U16)]
simd_advance_remainders_rest(ps, adv) ==
    [ps EXCEPT !.modn = AdvanceBlocks(@, 1, S_BLOCKS, adv % U16)]
simd_advance_remainders_rest_m(ps, adv) ==
    [ps EXCEPT !.modn = AdvanceBlocks(@, 1, M_BLOCKS, adv % U16)]
\* the lanes past the first block left where they are
simd_advance_remainders_rest_l_none(ps, adv) == ps
simd_advance_remainders_rest_l(ps, adv) ==
    [ps EXCEPT !.modn = AdvanceBlocks(@, 1, L_BLOCKS, adv % U16)]

\* state_advance_nr that leaves lsb behind
state_advance_nr_no_lsb(ps, adv) ==
    [ps EXCEPT !.offset = @ + adv,
               !.mod6   = (@ + (adv % 6)) % 6]

\* offset and lsb are uint64_t; the model's values stay far below 2^64
state_advance_nr(ps, adv) ==
    [ps EXCEPT !.offset = @ + adv,
               !.lsb    = @ + adv,
               !.mod6   = (@ + (adv % 6)) % 6]

simd_advance_all_s(ps, adv) ==
    simd_advance_remainders_rest(
        simd_advance_remainders_first(state_advance_nr(ps, adv % U16), adv), adv)
simd_advance_all_m(ps, adv) ==
    simd_advance_remainders_rest_m(
        simd_advance_remainders_first(state_advance_nr(ps, adv % U16), adv), adv)
simd_advance_all_l(ps, adv) ==
    simd_advance_remainders_rest_l(
        simd_advance_remainders_first(state_advance_nr(ps, adv % U16), adv), adv)

TableOf(mode) == ((mode \div 256) % 256) * 256     \* mode & SIMD_SEARCHTABLE_MASK
TypeOf(mode)  == mode % 256                        \* mode & SIMD_PRIMETYPE_MASK

\* autoselects size from ps->mode
simd_advance_all(ps, adv) ==
    CASE TableOf(ps.mode) = SIMD_SEARCHTABLE_S -> simd_advance_all_s(ps, adv)
      [] TableOf(ps.mode) = SIMD_SEARCHTABLE_M -> simd_advance_all_m(ps, adv)
      [] TableOf(ps.mode) = SIMD_SEARCHTABLE_L -> simd_advance_all_l(ps, adv)
      [] OTHER -> ps

\* ------------------------------------------------ search set-up
\* frame of one driver call: the state being advanced, struct SIMD_Advance's
\* write index, the caller's buffer and the driver's local skip counter
report_current_lsb(f, current) ==
    [f EXCEPT !.out = IF f.buf /\ f.wr < f.count
                      THEN [@ EXCEPT ![f.wr + 1] = current] ELSE @,
              !.wr  = @ + 1]

\* prime_mod6_advance that moves a 6k+1 start on to 6k+5
prime_mod6_advance_to5(mod6) ==
    CASE mod6 = 3 -> 2
      [] mod6 = 4 \/ mod6 = 0 -> 1
      [] mod6 = 2 -> 3
      [] mod6 = 1 -> 4
      [] OTHER -> 0

prime_mod6_advance(mod6) ==
    CASE mod6 = 3 -> 2
      [] mod6 = 4 \/ mod6 = 0 -> 1
      [] mod6 = 2 -> 3
      [] OTHER -> 0

scan_pkcs1_init(ps) == simd_advance_all(ps, prime_mod6_advance(ps.mod6))

\* scan_twin_or_safeprime that moves a state on 6k+5 on to 6(k+1)+5
scan_twin_or_safeprime_past5(ps) == simd_advance_all(ps, 6 - ((ps.mod6 + 1) % 6))

scan_twin_or_safeprime(ps) == simd_advance_all(ps, (11 - ps.mod6) % 6)

\* the state part of init_search (count is handled by the callers below)
init_search(ps, primetype) ==
    IF primetype = SIMD_PRIMETYPE_TWIN \/ primetype = SIMD_PRIMETYPE_SAFE
    THEN scan_twin_or_safeprime(ps)
    ELSE scan_pkcs1_init(ps)

\* the count part of init_search: 0 stays 0, a NULL buffer means one element
init_count(n, b) == IF n = 0 THEN 0 ELSE IF b THEN n ELSE 1

Unwritten == 0
NewBuffer(n, b) == IF b THEN [k \in 1 .. n |-> Unwritten] ELSE << >>

\* ------------------------------------------------ scratch vectors
BlockPos  == 0 .. (BlockLanes - 1)
ZeroBlock == [k \in BlockPos |-> 0]

\* struct SIMD_Advance's tmp[] and tm2[], and the tmp[] local to
\* simd_spcmp16x16, one block wide
NoScratch == [tmp |-> ZeroBlock, tm2 |-> ZeroBlock, loc |-> ZeroBlock]

\* struct SIMD_Advance adv = SIMD_ADVANCE_INIT0; the stack of the comparison
\* primitive keeps what an earlier call has left there
scratch_init(scr) == [scr EXCEPT !.tmp = ZeroBlock, !.tm2 = ZeroBlock]

\* wipe(pa->tmp), wipe(pa->tm2)
wipe_advance_struct(scr) == [scr EXCEPT !.tmp = ZeroBlock, !.tm2 = ZeroBlock]

\* simd_or16x16 over the 0 / 0xffff masks of a block
OrAll(m) == IF \E k \in DOMAIN m : m[k] # 0 THEN U16 - 1 ELSE 0

\* simd_mul16x16(tmp, modn, inv): the products n * 1/prime of block b
BlockProducts(modn, b) ==
    [k \in BlockPos |->
        simd_mul16x16(modn[b * BlockLanes + k],
                      firstprimes_inverse_simd[b * BlockLanes + k])]

\* the comparison masks a block tester computes in tmp[]
BlockMasks(tester, modn, b) ==
    [k \in BlockPos |->
        LET i == b * BlockLanes + k
            u == BlockProducts(modn, b)[k]
        IN  CASE tester = "plain" -> le16mask(u, firstprimes_mullimit_simd[i])
              [] tester = "twin"  -> simd_cmp16x16_twin(u, firstprimes_inverse_simd[i],
                                                        firstprimes_mullimit_simd[i])
              [] tester = "safe"  -> simd_spcmp16x16(u, firstprimes_inverse_simd[i],
                                                     firstprimes_mullimit_simd[i])]

\* the scratch vectors after a block tester has run on block b: tmp[] holds
\* the masks with their OR accumulated into its first lanes, tm2[] the other
\* half of the OR (and the twin tester's (n+2)/p products), and the tmp[] of
\* simd_spcmp16x16 the (2n+1)/p products
scratch_block(tester, scr, modn, b) ==
    LET m == BlockMasks(tester, modn, b)
        u == BlockProducts(modn, b)
        a == [k \in BlockPos |->
                 IF tester = "twin"
                 THEN simd_shladd16x16(firstprimes_inverse_simd[b * BlockLanes + k], u[k])
                 ELSE simd_shladd16x16(u[k], firstprimes_inverse_simd[b * BlockLanes + k])]
    IN  [tmp |-> [m EXCEPT ![0] = OrAll(m)],
         tm2 |-> [(IF tester = "twin" THEN a ELSE scr.tm2) EXCEPT ![0] = OrAll(m)],
         loc |-> IF tester = "safe" THEN a ELSE scr.loc]

\* the block a chain of block testers joined by && stops at
LastTested(tester, modn, blocks) ==
    LET failing == {b \in blocks : OrAll(BlockMasks(tester, modn, b)) # 0}
    IN  IF failing # {}
        THEN CHOOSE b \in failing : \A c \in failing : b <= c
        ELSE CHOOSE b \in blocks : \A c \in blocks : c <= b

scratch_after(tester, scr, modn, blocks) ==
    scratch_block(tester, scr, modn, LastTested(tester, modn, blocks))

\* the candidate a state stands for
Candidate(ps) == [lsb |-> ps.lsb, mod6 |-> ps.mod6]

\* ------------------------------------------------ plain driver
simd_check_plain1(f) ==
    LET g == [f EXCEPT !.tested = Append(@, Candidate(f.ps)),
                       !.scr = scratch_after("plain", @, f.ps.modn, 0 .. (S_BLOCKS - 1))]
    IN  IF simd_has_no_factor(f.ps) THEN report_current_lsb(g, f.ps.lsb) ELSE g

simd_check_plain1_l(f) ==
    LET g == [f EXCEPT !.tested = Append(@, Candidate(f.ps)),
                       !.scr = scratch_after("plain", @, f.ps.modn,
                                             {0} \cup (M_BLOCKS .. (L_BLOCKS - 1)))]
    IN  IF simd_has_no_factor_l(f.ps) THEN report_current_lsb(g, f.ps.lsb) ELSE g

\* 'rv' is a function-level static: it keeps its value between calls
plain_advance_to_6kp1(f) ==
    IF f.ps.mod6 = 5
    THEN LET g == simd_check_plain1(f)
         IN  [g EXCEPT !.ps = simd_advance_all(@, 2), !.rv = g.wr, !.wr = g.wr]
    ELSE [f EXCEPT !.wr = f.rv]

\* plain_advance_l up to the head of its while loop
plain_advance_l_enter(f, n, b) ==
    IF init_count(n, b) = 0
    THEN [f EXCEPT !.fn = "plain_advance_l", !.count = 0, !.buf = b,
                   !.out = NewBuffer(n, b), !.wr = 0, !.skip = 0, !.tested = << >>, !.scr = scratch_init(@),
                   !.ret = 0, !.pc = "ret"]
    ELSE plain_advance_to_6kp1(
             [f EXCEPT !.fn = "plain_advance_l", !.count = init_count(n, b),
                       !.buf = b, !.out = NewBuffer(n, b), !.wr = 0, !.skip = 0, !.tested = << >>, !.scr = scratch_init(@),
                       !.ps = init_search(@, 0), !.pc = "plain"])

\* the loop body stepping 6k+1 -> 6(k+1)+1 past the 6k+5 candidate
plain_advance_l_iter_by6(f) ==
    LET g1 == simd_check_plain1_l(f)
    IN  IF g1.wr < g1.count
        THEN LET g2 == simd_check_plain1_l([g1 EXCEPT !.ps = simd_advance_all(@, 6)])
             IN  IF g2.wr < g2.count
                 THEN [g2 EXCEPT !.ps = simd_advance_all(@, 2)]
                 ELSE g2
        ELSE g1

\* one iteration of the while loop of plain_advance_l
plain_advance_l_iter(f) ==
    LET g1 == simd_check_plain1_l(f)
    IN  IF g1.wr < g1.count
        THEN LET g2 == simd_check_plain1_l([g1 EXCEPT !.ps = simd_advance_all(@, 4)])
             IN  IF g2.wr < g2.count
                 THEN [g2 EXCEPT !.ps = simd_advance_all(@, 2)]
                 ELSE g2
        ELSE g1

\* wipe_advance_struct; return dst->lsb
driver_return(f) ==
    [f EXCEPT !.ret = f.ps.lsb, !.pc = "ret", !.scr = wipe_advance_struct(@)]

\* ------------------------------------------------ twin and safe drivers
SkipOver(skip) == (skip \div (2 ^ SkipBits)) # 0            \* skip >> 14

no_factor_first_of(fn, modn) ==
    IF fn = "twin_advance_l"
    THEN simd_no_twinfactor64x16(modn, 0)
    ELSE simd_no_spfactor64x16(modn, 0)

\* the block tester of the driver, and the blocks its rest test goes through
tester_of(fn) == IF fn = "twin_advance_l" THEN "twin" ELSE "safe"

rest_blocks_of(fn) ==
    CASE fn = "twin_advance_l"    -> 1 .. (L_BLOCKS - 1)
      [] fn = "sfsieve_advance_s" -> 1 .. (S_BLOCKS - 1)
      [] fn = "sfsieve_advance_m" -> 1 .. (M_BLOCKS - 1)
      [] fn = "sfsieve_advance_l" -> 1 .. (L_BLOCKS - 1)

no_factor_rest_of(fn, modn) ==
    CASE fn = "twin_advance_l"    -> simd_no_twinfactor_rest_l(modn)
      [] fn = "sfsieve_advance_s" -> simd_no_spfactor_rest1(modn)
      [] fn = "sfsieve_advance_m" -> simd_no_spfactor_rest_m(modn)
      [] fn = "sfsieve_advance_l" -> simd_no_spfactor_rest_l(modn)

\* the skip added to the lanes past the first block without the fold-back
advance_rest_of_nofold(fn, ps, adv) ==
    [ps EXCEPT !.modn = [i \in DOMAIN @ |->
        IF (i \div BlockLanes) \in rest_blocks_of(fn)
        THEN simd_advance16x16_inpl(@[i], adv % U16) ELSE @[i]]]

advance_rest_of(fn, ps, adv) ==
    CASE fn = "twin_advance_l"    -> simd_advance_remainders_rest_l(ps, adv)
      [] fn = "sfsieve_advance_s" -> simd_advance_remainders_rest(ps, adv)
      [] fn = "sfsieve_advance_m" -> simd_advance_remainders_rest_m(ps, adv)
      [] fn = "sfsieve_advance_l" -> simd_advance_remainders_rest_l(ps, adv)

advance_all_of(fn, ps, adv) ==
    CASE fn = "twin_advance_l"    -> simd_advance_all(ps, adv)
      [] fn = "sfsieve_advance_s" -> simd_advance_all(ps, adv)
      [] fn = "sfsieve_advance_m" -> simd_advance_all_m(ps, adv)
      [] fn = "sfsieve_advance_l" -> simd_advance_all_l(ps, adv)

\* twin_advance_l up to the head of its for loop
twin_advance_l_enter(f, n, b) ==
    IF init_count(n, b) = 0
    THEN [f EXCEPT !.fn = "twin_advance_l", !.count = 0, !.buf = b,
                   !.out = NewBuffer(n, b), !.wr = 0, !.skip = 0, !.tested = << >>, !.scr = scratch_init(@),
                   !.ret = 0, !.pc = "ret"]
    ELSE [f EXCEPT !.fn = "twin_advance_l", !.count = init_count(n, b),
                   !.buf = b, !.out = NewBuffer(n, b), !.wr = 0, !.skip = 0, !.tested = << >>, !.scr = scratch_init(@),
                   !.ps = init_search(@, SIMD_PRIMETYPE_TWIN), !.pc = "sieve"]

\* sfsieve_advance_s / _m / _l up to the head of the while loop
sfsieve_advance_enter(f, fn, n, b) ==
    IF init_count(n, b) = 0
    THEN [f EXCEPT !.fn = fn, !.count = 0, !.buf = b,
                   !.out = NewBuffer(n, b), !.wr = 0, !.skip = 0, !.tested = << >>, !.scr = scratch_init(@),
                   !.ret = 0, !.pc = "ret"]
    ELSE [f EXCEPT !.fn = fn, !.count = init_count(n, b),
                   !.buf = b, !.out = NewBuffer(n, b), !.wr = 0, !.skip = 0, !.tested = << >>, !.scr = scratch_init(@),
                   !.ps = scan_twin_or_safeprime(init_search(@, SIMD_PRIMETYPE_SAFE)),
                   !.pc = "sieve"]

\* the inner while loop continues: the first block has a factor
sieve_skip_guard(f) ==
    ~SkipOver(f.skip) /\ ~no_factor_first_of(f.fn, f.ps.modn)

\* body of the inner while loop
sieve_skip(f) ==
    [f EXCEPT !.ps.modn = simd_advance64x16_m2r_inpl(@, 0, 6), !.skip = @ + 6,
              !.scr = scratch_after(tester_of(f.fn), @, f.ps.modn, {0})]

\* rest of the outer loop body, after the inner loop has ended
sieve_test(f) ==
    LET ps1 == state_advance_nr(f.ps, f.skip)
        ps2 == IF f.skip # 0 THEN advance_rest_of(f.fn, ps1, f.skip) ELSE ps1
        g   == [f EXCEPT !.ps = ps2, !.skip = 0]
    IN  IF SkipOver(f.skip)
        THEN g
        ELSE LET t == [g EXCEPT !.scr = scratch_after(tester_of(f.fn), @, ps2.modn,
                                                      rest_blocks_of(f.fn))]
                 h == IF no_factor_rest_of(f.fn, ps2.modn)
                      THEN report_current_lsb(t, ps2.lsb) ELSE t
             IN  [h EXCEPT !.ps = advance_all_of(f.fn, @, 6)]

\* ------------------------------------------------ dispatch
HasBit(mode, bit) == (mode \div bit) % 2 = 1

\* main(): twin_advance_w, plain_advance or sfsieve_advance, by ps.mode
drive(f, n, b) ==
    IF HasBit(f.ps.mode, SIMD_PRIMETYPE_TWIN)
    THEN twin_advance_l_enter(f, n, b)                     \* twin_advance_w
    ELSE IF HasBit(f.ps.mode, SIMD_PRIMETYPE_PLAIN)
    THEN plain_advance_l_enter(f, n, b)                    \* plain_advance
    ELSE CASE TableOf(f.ps.mode) = SIMD_SEARCHTABLE_L ->   \* sfsieve_advance
                  sfsieve_advance_enter(f, "sfsieve_advance_l", n, b)
           [] TableOf(f.ps.mode) = SIMD_SEARCHTABLE_M ->
                  sfsieve_advance_enter(f, "sfsieve_advance_m", n, b)
           [] TableOf(f.ps.mode) = SIMD_SEARCHTABLE_S ->
                  sfsieve_advance_enter(f, "sfsieve_advance_s", n, b)
           [] OTHER -> [f EXCEPT !.fn = "sfsieve_advance", !.count = n, !.buf = b,
                                 !.out = NewBuffer(n, b), !.wr = 0, !.skip = 0, !.tested = << >>, !.scr = scratch_init(@),
                                 !.ret = 0, !.pc = "ret"]

\* one step of a running driver call
step(f) ==
    CASE f.pc = "plain" /\ f.wr < f.count  -> plain_advance_l_iter(f)
      [] f.pc = "sieve" /\ f.wr < f.count /\ sieve_skip_guard(f)  -> sieve_skip(f)
      [] f.pc = "sieve" /\ f.wr < f.count /\ ~sieve_skip_guard(f) -> sieve_test(f)
      [] OTHER -> driver_return(f)

\* a driver call from entry to return, followed until lsb reaches lim
RECURSIVE run(_, _)
run(f, lim) == IF f.pc = "ret" \/ f.ps.lsb >= lim THEN f ELSE run(step(f), lim)

\* ------------------------------------------------ state construction
\* mod16bits: candidate % first primes[]
mod16bits(q) == [i \in Lanes |-> q % firstprimes[i]]

\* mod16read followed by set_default_table_size / override_table_size
mod16read(q, primetype, table) ==
    [modn |-> mod16bits(q), lsb |-> q, offset |-> 0, mod6 |-> q % 6,
     mode |-> primetype + table]

\* the state after scalar advances summing to k, none of which has brought
\* a lane to 0x8000 yet (the state a caller resumes a search with)
Advanced(ps, k) ==
    [ps EXCEPT !.modn = [i \in Lanes |-> @[i] + k], !.lsb = @ + k,
               !.offset = @ + k, !.mod6 = (@ + k) % 6]

StartQ     == {MinStart + 2 * j : j \in 0 .. 2}
PreAdvance == {0, HALF - firstprimes[SIMDPRIME_COUNT - 1]}
PrimeTypes == {SIMD_PRIMETYPE_PLAIN, SIMD_PRIMETYPE_TWIN, SIMD_PRIMETYPE_SAFE}
Tables     == {SIMD_SEARCHTABLE_S, SIMD_SEARCHTABLE_M, SIMD_SEARCHTABLE_L}

\* arguments of a driver call: a buffer of n elements, or no buffer
CallArgs == {<<n, TRUE>> : n \in 0 .. MaxCount} \cup {<<MaxCount, FALSE>>}

\* number of blocks of the table tier named by the mode word
TierBlocks(mode) ==
    CASE TableOf(mode) = SIMD_SEARCHTABLE_S -> S_BLOCKS
      [] TableOf(mode) = SIMD_SEARCHTABLE_M -> M_BLOCKS
      [] TableOf(mode) = SIMD_SEARCHTABLE_L -> L_BLOCKS
      [] OTHER -> 0

TierLanes(mode) == 0 .. (TierBlocks(mode) * BlockLanes - 1)

\* the lanes of the tier, lsb and mod6 describe one and the same candidate
Agrees(s) ==
    /\ s.mod6 = s.lsb % 6
    /\ \A i \in TierLanes(s.mode) : s.modn[i] % firstprimes[i] = s.lsb % firstprimes[i]

\* ------------------------------------------------ the state machine
VARIABLES
    ps,      \* struct PP_Mod16bit: modn[], lsb, offset, mod6, mode
    wr,      \* struct SIMD_Advance .wr of the running call
    count,   \* 'count' of the running call, as updated by init_search
    buf,     \* TRUE iff the caller's lsb[] is not NULL
    out,     \* the caller's lsb[] (1-based), Unwritten where nothing was stored
    skip,    \* the local skip / adv1 of the twin and safe drivers
    rv,      \* the static 'rv' of plain_advance_to_6kp1
    pc,      \* "idle", "plain", "sieve" or "ret"
    fn,      \* the driver function that is running
    ret,     \* the value returned by the last call
    ps0,     \* the state the first call was made on
    entry,   \* what the running (or last) call was entered with
    calls,   \* the calls that have returned, in order
    lane,    \* one block of lanes handed to a lane primitive, and its result
    thr,     \* the frames of two callers running on different threads
    tested,  \* the candidates the plain testers were applied to in the running call
    scr,     \* adv.tmp[], adv.tm2[] and the tmp[] local to simd_spcmp16x16
    arg,     \* the command line main reads the state from
    num      \* the operands of a modn16 call, and its result

vars == <<ps, wr, count, buf, out, skip, rv, pc, fn, ret, ps0, entry, calls,
          lane, thr, tested, scr, arg, num>>

\* no lane primitive is being exercised, no second thread is running
NoLane    == [j |-> 0, xw |-> 0, bg |-> 0, op |-> "none", r |-> 0]
NoThreads == << >>

\* no command line is being read, no modn16 call is being made
NoArg == [q |-> 0, type |-> 0, primes |-> 0, rc |-> 0]
NoNum == [n |-> << >>, null |-> FALSE, modn |-> 0, op |-> "none", r |-> 0]

\* the frame of a caller that has made no call yet on state s
FrameOf(s) == [ps |-> s, wr |-> 0, count |-> 0, buf |-> FALSE, out |-> << >>,
               skip |-> 0, rv |-> 0, pc |-> "idle", fn |-> "none", ret |-> 0,
               tested |-> << >>, scr |-> NoScratch]

Frame == [ps |-> ps, wr |-> wr, count |-> count, buf |-> buf, out |-> out,
          skip |-> skip, rv |-> rv, pc |-> pc, fn |-> fn, ret |-> ret,
          tested |-> tested, scr |-> scr]

EntryOf(s, n, b, r) ==
    [lsb |-> s.lsb, mod6 |-> s.mod6, mode |-> s.mode, offset |-> s.offset,
     agrees |-> Agrees(s), n |-> n, b |-> b, rv |-> r]

Init ==
    /\ \E q \in StartQ, k \in PreAdvance, t \in PrimeTypes, s \in Tables :
           ps = Advanced(mod16read(q, t, s), k)
    /\ ps0 = ps
    /\ wr = 0 /\ count = 0 /\ buf = FALSE /\ out = << >> /\ skip = 0
    /\ rv = 0 /\ pc = "idle" /\ fn = "none" /\ ret = 0
    /\ tested = << >> /\ scr = NoScratch /\ arg = NoArg /\ num = NoNum
    /\ entry = EntryOf(ps, 0, FALSE, 0) /\ calls = << >>
    /\ lane = NoLane /\ thr = NoThreads

\* the record of a call that has returned with frame g
Returned(g, e) ==
    [fn |-> g.fn, count |-> g.count, wr |-> g.wr, out |-> g.out, ret |-> g.ret,
     entry |-> e, lsb |-> g.ps.lsb]

Load(g, e) ==
    /\ ps' = g.ps /\ wr' = g.wr /\ count' = g.count /\ buf' = g.buf
    /\ out' = g.out /\ skip' = g.skip /\ rv' = g.rv /\ pc' = g.pc
    /\ fn' = g.fn /\ ret' = g.ret
    /\ tested' = g.tested /\ scr' = g.scr
    /\ ps0' = ps0
    /\ entry' = e
    /\ calls' = IF g.pc = "ret" THEN Append(calls, Returned(g, e)) ELSE calls
    /\ UNCHANGED <<lane, thr, arg, num>>

Idle == pc \in {"idle", "ret"} /\ Len(calls) < MaxCalls

\* the call is still followed
Active == ps.lsb < entry.lsb + MaxScan /\ Len(tested) < MaxScan

Call(n, b) == Load(drive(Frame, n, b), EntryOf(ps, n, b, rv))

PlainCall ==
    /\ Idle /\ ~HasBit(ps.mode, SIMD_PRIMETYPE_TWIN)
    /\ HasBit(ps.mode, SIMD_PRIMETYPE_PLAIN)
    /\ \E a \in CallArgs : Call(a[1], a[2])

TwinCall ==
    /\ Idle /\ HasBit(ps.mode, SIMD_PRIMETYPE_TWIN)
    /\ \E a \in CallArgs : Call(a[1], a[2])

SafeCall ==
    /\ Idle /\ ~HasBit(ps.mode, SIMD_PRIMETYPE_TWIN)
    /\ ~HasBit(ps.mode, SIMD_PRIMETYPE_PLAIN)
    /\ \E a \in CallArgs : Call(a[1], a[2])

PlainIter ==
    /\ pc = "plain" /\ wr < count /\ Active
    /\ Load(plain_advance_l_iter(Frame), entry)

TwinSkip ==
    /\ pc = "sieve" /\ fn = "twin_advance_l" /\ wr < count /\ Active
    /\ sieve_skip_guard(Frame)
    /\ Load(sieve_skip(Frame), entry)

TwinTest ==
    /\ pc = "sieve" /\ fn = "twin_advance_l" /\ wr < count /\ Active
    /\ ~sieve_skip_guard(Frame)
    /\ Load(sieve_test(Frame), entry)

SafeSkip ==
    /\ pc = "sieve" /\ fn # "twin_advance_l" /\ wr < count /\ Active
    /\ sieve_skip_guard(Frame)
    /\ Load(sieve_skip(Frame), entry)

SafeTest ==
    /\ pc = "sieve" /\ fn # "twin_advance_l" /\ wr < count /\ Active
    /\ ~sieve_skip_guard(Frame)
    /\ Load(sieve_test(Frame), entry)

Return ==
    /\ pc \in {"plain", "sieve"} /\ wr >= count
    /\ Load(driver_return(Frame), entry)

Next ==
    \/ PlainCall \/ TwinCall \/ SafeCall
    \/ PlainIter
    \/ TwinSkip \/ TwinTest
    \/ SafeSkip \/ SafeTest
    \/ Return

Spec == Init /\ [][Next]_vars

\* ------------------------------------------------ reference definitions
\* divisibility by the primes of the tier, stated with integer remainders
PlainOK(c, mode) == \A i \in TierLanes(mode) : c % firstprimes[i] # 0
TwinOK(c, mode) ==
    \A i \in TierLanes(mode) : c % firstprimes[i] # 0 /\ (c + 2) % firstprimes[i] # 0
SafeOK(c, mode) ==
    \A i \in TierLanes(mode) : c % firstprimes[i] # 0 /\ (2 * c + 1) % firstprimes[i] # 0

\* the first n candidates c, c+6, c+12, ... that satisfy the twin (safe) condition
RECURSIVE FirstTwin(_, _, _)
FirstTwin(c, n, mode) ==
    IF n = 0 THEN << >>
    ELSE IF TwinOK(c, mode) THEN <<c>> \o FirstTwin(c + 6, n - 1, mode)
    ELSE FirstTwin(c + 6, n, mode)

RECURSIVE FirstSafe(_, _, _)
FirstSafe(c, n, mode) ==
    IF n = 0 THEN << >>
    ELSE IF SafeOK(c, mode) THEN <<c>> \o FirstSafe(c + 6, n - 1, mode)
    ELSE FirstSafe(c + 6, n, mode)

\* the smallest c >= q with c = 5 (mod 6)
Next6k5(q) == q + ((11 - (q % 6)) % 6)

SafeFns == {"sfsieve_advance_s", "sfsieve_advance_m", "sfsieve_advance_l"}

\* the cells of the caller's buffer that have been written
Written == {k \in DOMAIN out : out[k] # Unwritten}

\* ------------------------------------------------ claims

\* C1: every value the plain driver writes to the buffer is a candidate that
\* no prime of the tier named by the mode divides.
C1_PlainSurvivorsHaveNoFactor ==
    (fn = "plain_advance_l" /\ entry.agrees) =>
        \A k \in Written : PlainOK(out[k], entry.mode)

\* C2: when the twin driver returns, the buffer holds exactly the first
\* 'count' candidates c >= Q0, c = 5 (mod 6), such that no prime of the tier
\* divides c or c+2, in ascending order.
C2_TwinExactlyFirstN ==
    (pc = "ret" /\ fn = "twin_advance_l" /\ entry.agrees /\ buf /\ count >= 1) =>
        out = FirstTwin(Next6k5(entry.lsb), count, entry.mode)

Folded == \E i \in TierLanes(ps.mode) : ps.modn[i] < ps0.modn[i]

RECURSIVE Concat(_)
Concat(cs) == IF cs = << >> THEN << >> ELSE Head(cs).out \o Concat(Tail(cs))

RECURSIVE SumN(_)
SumN(cs) == IF cs = << >> THEN 0 ELSE Head(cs).entry.n + SumN(Tail(cs))

\* one call on the original state, followed as far as the calls made so far
OneRun(n) == run(drive(FrameOf(ps0), n, TRUE), ps.lsb + 1)

\* C4: a run for n1 survivors followed by a run on the resulting state for
\* n2 survivors yields, concatenated, the sequence of one run for n1+n2
\* survivors from the original state.
C4_Resumption ==
    (/\ pc = "ret" /\ Len(calls) = 2 /\ calls[1].entry.agrees
     /\ \A j \in 1 .. 2 : calls[j].entry.b /\ calls[j].entry.n >= 1) =>
        Concat(calls) = OneRun(SumN(calls)).out

\* C5: within one driver invocation the values written to the buffer are
\* strictly ascending.
C5_StrictlyAscending ==
    \A k1, k2 \in Written : k1 < k2 => out[k1] < out[k2]

\* a call has written two survivors
C5_Witness ==
    /\ pc = "ret" /\ buf /\ count = 2 /\ Written = {1, 2} /\ out[1] < out[2]

\* C6: when a driver returns because the buffer is full, the state is
\* positioned strictly past the last candidate written.
C6_StatePastLastWritten ==
    (pc = "ret" /\ buf /\ count >= 1 /\ wr >= count) =>
        /\ ps.mod6 = ps.lsb % 6
        /\ \A k \in Written : out[k] < ps.lsb

\* C7: a call returns the lsb of the last survivor it wrote (with no buffer:
\* of the next survivor found), and 0 when count is 0.
C7_ReturnsLastWritten ==
    (pc = "ret") =>
        /\ (count = 0) => (ret = 0)
        /\ (buf /\ count >= 1 /\ wr >= count /\ count \in Written) =>
               (ret = out[count])
        /\ (~buf /\ count >= 1 /\ fn \in SafeFns /\ entry.agrees) =>
               (ret = FirstSafe(Next6k5(entry.lsb), 1, entry.mode)[1])

\* the complete survivor test of a driver
no_factor_of(f, modn) ==
    IF f = "plain_advance_l"
    THEN simd_has_no_factor_l([modn |-> modn])
    ELSE no_factor_first_of(f, modn) /\ no_factor_rest_of(f, modn)

\* the advance a driver makes between two tests
step_advance_of(f, s) ==
    IF f = "plain_advance_l" THEN simd_advance_all(s, 2) ELSE advance_all_of(f, s, 6)

\* lanes that are 1: neither x, x+2 nor 2x+1 has a factor
Clean == [i \in Lanes |-> 1]

\* the lanes a driver's survivor test looks at
TestedLanes(f) == {i \in Lanes : ~no_factor_of(f, [Clean EXCEPT ![i] = 0])}

\* the lanes a driver's advance changes
SteppedLanes(f, s) == {i \in Lanes : step_advance_of(f, s).modn[i] # s.modn[i]}

\* C8: the lanes a driver call tests and the lanes it advances at every step
\* are both exactly the lanes of the tier named by the mode.
C8_TierUsedIsTierOfMode ==
    (pc \in {"plain", "sieve"}) =>
        /\ TestedLanes(fn) = TierLanes(ps.mode)
        /\ SteppedLanes(fn, ps) = TierLanes(ps.mode)

\* the same call made on the original state with the table tier set to t
RunAtTier(t) ==
    run(drive(FrameOf([ps0 EXCEPT !.mode = TypeOf(@) + t]),
              calls[1].entry.n, calls[1].entry.b), ps.lsb + 1)

Range(q) == {q[k] : k \in DOMAIN q}

\* C9: every candidate reported at tier L is also reported at tier M and at
\* tier S, for the same start state.
C9_TierMonotonicity ==
    (pc = "ret" /\ Len(calls) = 1 /\ buf /\ count >= 1
     /\ TableOf(ps.mode) # SIMD_SEARCHTABLE_L) =>
        \A c \in Range(RunAtTier(SIMD_SEARCHTABLE_L).out) \ {Unwritten} :
            (\E k \in Written : c <= out[k]) => c \in Range(out)

callerVars == <<ps, wr, count, buf, out, skip, rv, pc, fn, ret, ps0, entry, calls,
                tested, scr>>

\* the caller's variables while no driver call is made
NoCaller ==
    /\ ps = mod16read(MinStart, SIMD_PRIMETYPE_PLAIN, SIMD_SEARCHTABLE_L)
    /\ ps0 = ps
    /\ wr = 0 /\ count = 0 /\ buf = FALSE /\ out = << >> /\ skip = 0
    /\ rv = 0 /\ pc = "idle" /\ fn = "none" /\ ret = 0
    /\ tested = << >> /\ scr = NoScratch
    /\ entry = EntryOf(ps, 0, FALSE, 0) /\ calls = << >>

\* inputs for lane i: small values, multiples of the prime and their
\* neighbours (twin and safe companions included), the values around 0x8000
\* and 0xffff, and values of 2^16 and more
LaneSamples(i) ==
    LET p == firstprimes[i]
        l == firstprimes_mullimit_simd[i]
    IN  {0, 1, 2, p - 2, p - 1, p, (p - 1) \div 2,
         p * l - 2, p * l - 1, p * l,
         HALF - 1, HALF, HALF + ((p - 1) \div 2),
         U16 - 3, U16 - 2, U16 - 1,
         p * (l \div 2) - 2, p * (l \div 2) - 1, p * (l \div 2),
         (p * (l - ((l + 1) % 2)) - 1) \div 2, 2 * p - 2, 3 * p,
         p * (l + 1), U16 + p, (U16 - 1) * p}

\* the value as the uint16_t the lane stores
LaneValue(l) == l.xw % U16

LaneBlock(l) == l.j \div BlockLanes

\* the block handed to a tester: lane j holds the input, the others l.bg
LaneVector(l) ==
    [i \in BlockIdx(LaneBlock(l)) |-> IF i = l.j THEN LaneValue(l) ELSE l.bg]

\* a C truth value
Truth(b) == IF b THEN 1 ELSE 0

LaneInit ==
    /\ NoCaller /\ thr = NoThreads /\ arg = NoArg /\ num = NoNum
    /\ \E j \in Lanes, bg \in {0, 1} : \E x \in LaneSamples(j) :
           lane = [j |-> j, xw |-> x, bg |-> bg, op |-> "load", r |-> 0]

LaneApply(op, r) ==
    /\ lane.op = "load"
    /\ lane' = [lane EXCEPT !.op = op, !.r = r]
    /\ UNCHANGED <<callerVars, thr, arg, num>>

LanePlain ==
    LaneApply("plain", Truth(simd_nofactor64x16(LaneVector(lane), LaneBlock(lane))))

LaneTwin ==
    LaneApply("twin", Truth(simd_no_twinfactor64x16(LaneVector(lane), LaneBlock(lane))))

LaneSafe ==
    LaneApply("safe", Truth(simd_no_spfactor64x16(LaneVector(lane), LaneBlock(lane))))

\* one lane of simd_m2range16x16
LaneFold ==
    LaneApply("fold", m2range_1unit(LaneValue(lane), firstprimes_mod2range_simd[lane.j]))

\* one lane of the multiply and compare of simd_nofactor64x16, the input
\* converted to uint16_t
LaneWide ==
    LaneApply("wide", le16mask(simd_mul16x16(LaneValue(lane),
                                             firstprimes_inverse_simd[lane.j]),
                               firstprimes_mullimit_simd[lane.j]))

LaneNext == LanePlain \/ LaneTwin \/ LaneSafe \/ LaneFold \/ LaneWide

LaneSpec == LaneInit /\ [][LaneNext]_vars

\* the prime of the probed lane
LanePrime == firstprimes[lane.j]

\* m2r as the claim defines it
ClaimedM2R(i) == U16 - (U16 % firstprimes[i])

Divides(p, n) == n % p = 0

\* C13: for arbitrary 16-bit lane values a[i] the plain block tester
\* simd_nofactor64x16 returns non-zero exactly when no primes[i] divides a[i].
C13_PlainBlockTester ==
    (lane.op = "plain") =>
        (lane.r # 0 <=>
            \A i \in BlockIdx(LaneBlock(lane)) :
                ~Divides(firstprimes[i], LaneVector(lane)[i]))

\* the tester has rejected a block for the largest 16-bit multiple of one prime
C13_Witness ==
    /\ lane.op = "plain" /\ lane.r = 0 /\ lane.bg = 1
    /\ LaneValue(lane) = LanePrime * firstprimes_mullimit_simd[lane.j]
    /\ LaneValue(lane) >= HALF

\* no lane of the block other than the probed one reports a factor
CleanBackground == lane.bg = 1

\* C14 (as stated): for every 16-bit x the twin fold reports a hit exactly
\* when p divides x or x + 2, so the block tester returns non-zero exactly
\* when no prime divides Q or Q + 2.
C14_TwinFoldAllValues ==
    (lane.op = "twin" /\ CleanBackground) =>
        (lane.r = 0 <=>
            \/ Divides(LanePrime, LaneValue(lane))
            \/ Divides(LanePrime, LaneValue(lane) + 2))

\* C14 (amended): for every 16-bit x with x + 2 < 2^16 the twin fold reports
\* a hit exactly when p divides x or x + 2, so the block tester returns
\* non-zero exactly when no prime divides Q or Q + 2.
C14_TwinFoldInRange ==
    (lane.op = "twin" /\ CleanBackground /\ LaneValue(lane) + 2 < U16) =>
        (lane.r = 0 <=>
            \/ Divides(LanePrime, LaneValue(lane))
            \/ Divides(LanePrime, LaneValue(lane) + 2))

\* the twin tester has rejected a block because a prime divides x + 2 only
C14_Witness ==
    /\ lane.op = "twin" /\ CleanBackground /\ lane.r = 0
    /\ LaneValue(lane) + 2 < U16
    /\ ~Divides(LanePrime, LaneValue(lane))
    /\ Divides(LanePrime, LaneValue(lane) + 2)

\* C15 (as stated): for every 16-bit x the safe fold reports a hit exactly
\* when p divides x or 2x + 1.
C15_SafeFoldAllValues ==
    (lane.op = "safe" /\ CleanBackground) =>
        (lane.r = 0 <=>
            \/ Divides(LanePrime, LaneValue(lane))
            \/ Divides(LanePrime, 2 * LaneValue(lane) + 1))

\* C15 (amended): for every x below 2^15 the safe fold reports a hit exactly
\* when p divides x or 2x + 1.
C15_SafeFoldInRange ==
    (lane.op = "safe" /\ CleanBackground /\ LaneValue(lane) < HALF) =>
        (lane.r = 0 <=>
            \/ Divides(LanePrime, LaneValue(lane))
            \/ Divides(LanePrime, 2 * LaneValue(lane) + 1))

\* the safe tester has rejected a block because a prime divides 2x + 1 only
C15_Witness ==
    /\ lane.op = "safe" /\ CleanBackground /\ lane.r = 0
    /\ LaneValue(lane) < HALF
    /\ ~Divides(LanePrime, LaneValue(lane))
    /\ Divides(LanePrime, 2 * LaneValue(lane) + 1)

\* C16 (as stated): for every x with 0 <= x < 2^16 * p, p divides x exactly
\* when the tester's wrapping 16x16->16 multiply of x by inv is at most limit.
C16_ExtendedRange ==
    (lane.op = "wide" /\ lane.xw < U16 * LanePrime) =>
        (Divides(LanePrime, lane.xw) <=> lane.r # 0)

\* C16 (amended): for every x with 0 <= x < 2^16, p divides x exactly when
\* the tester's wrapping 16x16->16 multiply of x by inv is at most limit.
C16_SixteenBitRange ==
    (lane.op = "wide" /\ lane.xw < U16) =>
        (Divides(LanePrime, lane.xw) <=> lane.r # 0)

\* the multiply and compare has recognised a multiple of the prime above 2^15
C16_Witness ==
    /\ lane.op = "wide" /\ lane.xw < U16 /\ lane.xw >= HALF
    /\ Divides(LanePrime, lane.xw) /\ lane.r = U16 - 1

\* ------------------------------------------------ searches from small values
\* calls on states below and inside the table: the prime type, the start
\* value, the count and the buffer the call is to fill
Scenarios ==
    {[type |-> SIMD_PRIMETYPE_PLAIN, q |-> 101, n |-> 3, lsb |-> <<101, 103, 107>>],
     [type |-> SIMD_PRIMETYPE_PLAIN, q |-> 9,   n |-> 1, lsb |-> <<11>>],
     [type |-> SIMD_PRIMETYPE_TWIN,  q |-> 5,   n |-> 4, lsb |-> <<5, 11, 17, 29>>],
     [type |-> SIMD_PRIMETYPE_SAFE,  q |-> 11,  n |-> 3, lsb |-> <<11, 23, 83>>]}

\* the scenario a state was read for
ScenarioOf(s) ==
    CHOOSE sc \in Scenarios : sc.q = s.lsb /\ HasBit(s.mode, sc.type)

ScenarioInit ==
    /\ \E sc \in Scenarios, t \in Tables : ps = mod16read(sc.q, sc.type, t)
    /\ ps0 = ps
    /\ wr = 0 /\ count = 0 /\ buf = FALSE /\ out = << >> /\ skip = 0
    /\ rv = 0 /\ pc = "idle" /\ fn = "none" /\ ret = 0
    /\ tested = << >> /\ scr = NoScratch /\ arg = NoArg /\ num = NoNum
    /\ entry = EntryOf(ps, 0, FALSE, 0) /\ calls = << >>
    /\ lane = NoLane /\ thr = NoThreads

\* main's dispatch to plain_advance, twin_advance_w or sfsieve_advance
ScenarioCall ==
    /\ pc = "idle"
    /\ Call(ScenarioOf(ps).n, TRUE)

ScenarioNext ==
    \/ ScenarioCall
    \/ PlainIter
    \/ TwinSkip \/ TwinTest
    \/ SafeSkip \/ SafeTest
    \/ Return

ScenarioSpec == ScenarioInit /\ [][ScenarioNext]_vars

\* C17: a candidate that is itself prime is reported even when it is one of
\* the table's primes: at tier S the plain search from 101 with count 3
\* writes 101, 103, 107, the plain search from 9 with count 1 writes 11, the
\* twin search from 5 with count 4 writes 5, 11, 17, 29 and the safe search
\* from 11 with count 3 writes 11, 23, 83.
C17_TablePrimesReported ==
    (pc = "ret" /\ HasBit(ps0.mode, SIMD_SEARCHTABLE_S)) =>
        out = ScenarioOf(ps0).lsb

\* ------------------------------------------------ two threads
Threads == {1, 2}

\* a thread about to call the driver of its state's type with a buffer of n
ThreadOf(s, n) == [f |-> FrameOf(s), s0 |-> s, n |-> n]

ThreadStarts ==
    {ThreadOf(mod16read(q, t, SIMD_SEARCHTABLE_L), MaxCount) :
        q \in StartQ, t \in PrimeTypes}

\* the variables of the single caller, the function-level static excepted
ownVars == <<ps, wr, count, buf, out, skip, pc, fn, ret, ps0, entry, calls,
             tested, scr>>

\* each thread owns its state, its buffer and its locals; the static rv of
\* plain_advance_to_6kp1 exists once in the process
ParInit ==
    /\ ps = mod16read(MinStart, SIMD_PRIMETYPE_PLAIN, SIMD_SEARCHTABLE_L)
    /\ ps0 = ps
    /\ wr = 0 /\ count = 0 /\ buf = FALSE /\ out = << >> /\ skip = 0
    /\ rv = 0 /\ pc = "idle" /\ fn = "none" /\ ret = 0
    /\ tested = << >> /\ scr = NoScratch /\ arg = NoArg /\ num = NoNum
    /\ entry = EntryOf(ps, 0, FALSE, 0) /\ calls = << >>
    /\ lane = NoLane
    /\ \E a \in ThreadStarts, b \in ThreadStarts : thr = <<a, b>>

\* thread t runs with frame g; what g leaves in the static is seen by all
ParLoad(t, g) ==
    /\ thr' = [thr EXCEPT ![t].f = g]
    /\ rv' = g.rv
    /\ UNCHANGED <<ownVars, lane, arg, num>>

\* the frame of thread t, reading the static as it is now
ParFrame(t) == [thr[t].f EXCEPT !.rv = rv]

\* thread t enters its driver
ParCall(t) ==
    /\ thr[t].f.pc = "idle"
    /\ ParLoad(t, drive(ParFrame(t), thr[t].n, TRUE))

\* thread t runs one iteration of its driver's loop, or returns
ParStep(t) ==
    /\ thr[t].f.pc \in {"plain", "sieve"}
    /\ thr[t].f.ps.lsb < thr[t].s0.lsb + MaxScan
    /\ ParLoad(t, step(ParFrame(t)))

ParNext == \E t \in Threads : ParCall(t) \/ ParStep(t)

ParSpec == ParInit /\ [][ParNext]_vars

\* the call of thread t made alone in a fresh process
Alone(t) == run(drive(FrameOf(thr[t].s0), thr[t].n, TRUE), thr[t].s0.lsb + MaxScan)

\* C18: two driver calls on independent states, interleaved in any way,
\* produce the same buffers, return values and final states as each call
\* made alone; the drivers share no mutable memory.
C18_ThreadsIndependent ==
    \A t \in Threads :
        (thr[t].f.pc = "ret") =>
            /\ thr[t].f.out = Alone(t).out
            /\ thr[t].f.ret = Alone(t).ret
            /\ thr[t].f.ps = Alone(t).ps

\* ------------------------------------------------ modes that are not enabled
NoTable == 0                                  \* mode & SIMD_SEARCHTABLE_MASK == 0

\* mode words with no tier bits, and mode words of the prime type that the
\* build does not offer
BadModes ==
    {t + NoTable : t \in PrimeTypes}
        \cup {SIMD_PRIMETYPE_FIPS186 + s : s \in Tables \cup {NoTable}}

BadInit ==
    /\ \E q \in StartQ, m \in BadModes : ps = [mod16read(q, 0, 0) EXCEPT !.mode = m]
    /\ ps0 = ps
    /\ wr = 0 /\ count = 0 /\ buf = FALSE /\ out = << >> /\ skip = 0
    /\ rv = 0 /\ pc = "idle" /\ fn = "none" /\ ret = 0
    /\ tested = << >> /\ scr = NoScratch /\ arg = NoArg /\ num = NoNum
    /\ entry = EntryOf(ps, 0, FALSE, 0) /\ calls = << >>
    /\ lane = NoLane /\ thr = NoThreads

\* one call of the entry point main picks for the mode
BadCall ==
    /\ pc = "idle"
    /\ \E a \in CallArgs : Call(a[1], a[2])

BadNext ==
    \/ BadCall
    \/ PlainIter
    \/ TwinSkip \/ TwinTest
    \/ SafeSkip \/ SafeTest
    \/ Return

BadSpec == BadInit /\ [][BadNext]_vars

\* C19: a driver called with a state whose mode names a tier or prime type
\* that is not enabled (a mode with no tier bits included) returns 0 and
\* leaves the state and the output buffer unchanged.
C19_BadModeReturnsZero ==
    (pc # "idle") =>
        /\ ps = ps0
        /\ Written = {}
        /\ (pc = "ret") => (ret = 0)

\* C20: every driver invocation runs to completion: a call that has not
\* filled its buffer is never in a state that its next loop iteration leaves
\* as it is, so that it would repeat that iteration for ever.
C20_RunsToCompletion ==
    (pc \in {"plain", "sieve"} /\ wr < count) =>
        ([step(Frame) EXCEPT !.tested = tested] # Frame)

\* ------------------------------------------------ reading the start value
PP_MOD16_INVD_MODE == -1                      \* ~((unsigned int) 0)

\* struct PP_Mod16bit ps = PP_MOD16BIT_INIT0
PP_MOD16BIT_INIT0 ==
    [modn |-> [i \in Lanes |-> 0], lsb |-> 0, offset |-> 0, mod6 |-> 0, mode |-> 0]

\* start values of every residue modulo 6, and zero
ReadQ == {0} \cup (MinStart .. (MinStart + 5))

\* what callmode makes of the prefix of argv[1]
ReadModes == PrimeTypes \cup {PP_MOD16_INVD_MODE}

ReadInit ==
    /\ ps = PP_MOD16BIT_INIT0
    /\ ps0 = ps
    /\ wr = 0 /\ count = 0 /\ buf = FALSE /\ out = << >> /\ skip = 0
    /\ rv = 0 /\ pc = "main" /\ fn = "none" /\ ret = 0
    /\ tested = << >> /\ scr = NoScratch /\ num = NoNum
    /\ entry = EntryOf(ps, 0, FALSE, 0) /\ calls = << >>
    /\ lane = NoLane /\ thr = NoThreads
    /\ \E q \in ReadQ, t \in ReadModes, s \in Tables :
           arg = [q |-> q, type |-> t, primes |-> s, rc |-> 0]

\* main: mod16read, set_default_table_size, override_table_size
Read ==
    /\ pc = "main"
    /\ IF arg.type = PP_MOD16_INVD_MODE
       THEN /\ arg' = [arg EXCEPT !.rc = -1]
            /\ pc' = "exit"
            /\ UNCHANGED <<ps, ps0, entry>>
       ELSE /\ arg' = [arg EXCEPT !.rc = 1]
            /\ pc' = "idle"
            /\ ps' = mod16read(arg.q, arg.type, arg.primes)
            /\ ps0' = ps'
            /\ entry' = EntryOf(ps', 0, FALSE, 0)
    /\ UNCHANGED <<wr, count, buf, out, skip, rv, fn, ret, calls, tested, scr,
                   lane, thr, num>>

\* main's single driver call
ReadCall ==
    /\ pc = "idle"
    /\ \E a \in CallArgs : Call(a[1], a[2])

ReadNext ==
    \/ Read
    \/ ReadCall
    \/ PlainIter
    \/ TwinSkip \/ TwinTest
    \/ SafeSkip \/ SafeTest
    \/ Return

ReadSpec == ReadInit /\ [][ReadNext]_vars

\* C21: state construction rejects an even Q (and Q = 0): no state is
\* produced and no driver ever runs on an even starting value.
C21_EvenStartRejected ==
    (arg.q % 2 = 0) => (arg.rc # 1 /\ pc \in {"main", "exit"})

\* ------------------------------------------------ modn16
MaxLimbs == 2

\* a uint64_t as its eight bytes, most significant first
Limb(b7, b6, b5, b4, b3, b2, b1, b0) == <<b7, b6, b5, b4, b3, b2, b1, b0>>

\* x % modn for a uint64_t x
RECURSIVE Rem64Bytes(_, _, _)
Rem64Bytes(x, acc, modn) ==
    IF x = << >> THEN acc
    ELSE Rem64Bytes(Tail(x), (acc * 256 + Head(x)) % modn, modn)

Rem64(x, modn) == Rem64Bytes(x, 0, modn)

\* (uint64_t) -modn for a 16-bit modn >= 1
Neg64(modn) ==
    Limb(255, 255, 255, 255, 255, 255, (U16 - modn) \div 256, (U16 - modn) % 256)

\* mod264 that takes 2^64 for 1
mod264_one(modn) == 1 % modn

\* uint16_t mod264 = ((uint64_t) -modn) % modn
mod264(modn) == Rem64(Neg64(modn), modn)

\* acc *= mod264; acc += red; acc %= modn, in uint64_t (all operands are
\* below 2^16, so nothing wraps); the product is taken bytewise to stay
\* within the integers of the checker
modn16_step(acc, c, red, modn) ==
    ((((acc * (c \div 256)) % modn) * 256) + (acc * (c % 256)) + red) % modn

RECURSIVE modn16_loop(_, _, _)
modn16_loop(n, acc, modn) ==
    IF n = << >> THEN acc
    ELSE modn16_loop(Tail(n),
                     modn16_step(acc, mod264(modn), Rem64(Head(n), modn), modn),
                     modn)

\* return (n, count) % (16-bit) modn; count is Len(n)
modn16(n, null, modn) ==
    IF modn >= 2 /\ ~null /\ Len(n) # 0
    THEN (modn16_loop(n, 0, modn) % modn) % U16
    ELSE 0

\* limbs: 0, 1, 2^32, 2^63, 0x0123456789abcdef, 2^64 - 1
LimbSamples ==
    {Limb(0, 0, 0, 0, 0, 0, 0, 0), Limb(0, 0, 0, 0, 0, 0, 0, 1),
     Limb(0, 0, 0, 1, 0, 0, 0, 0), Limb(128, 0, 0, 0, 0, 0, 0, 0),
     Limb(1, 35, 69, 103, 137, 171, 205, 239),
     Limb(255, 255, 255, 255, 255, 255, 255, 255)}

\* big-endian limb sequences of up to MaxLimbs limbs
RECURSIVE LimbSeqs(_)
LimbSeqs(k) ==
    IF k = 0 THEN {<< >>}
    ELSE LimbSeqs(k - 1) \cup
             {Append(n, x) : n \in {m \in LimbSeqs(k - 1) : Len(m) = k - 1},
                             x \in LimbSamples}

\* moduli: the ones modn16 answers with 0, 6, table primes, and the ends of
\* the 16-bit range
ModulusSamples ==
    {0, 1, 2, 3, 5, 6, 7, 255, 256, 257, firstprimes[SIMDPRIME_COUNT - 1],
     HALF - 1, HALF, HALF + 1, U16 - 15, U16 - 1}

ModInit ==
    /\ NoCaller /\ thr = NoThreads /\ lane = NoLane /\ arg = NoArg
    /\ \E n \in LimbSeqs(MaxLimbs), null \in BOOLEAN, m \in ModulusSamples :
           /\ null => n = << >>
           /\ num = [n |-> n, null |-> null, modn |-> m, op |-> "load", r |-> 0]

\* res[m] = modn16(n, nrd, mods[m])
ModApply ==
    /\ num.op = "load"
    /\ num' = [num EXCEPT !.op = "modn16", !.r = modn16(num.n, num.null, num.modn)]
    /\ UNCHANGED <<callerVars, thr, lane, arg>>

ModNext == ModApply

ModSpec == ModInit /\ [][ModNext]_vars

\* all bytes of a limb sequence, most significant first
RECURSIVE Flatten(_)
Flatten(n) == IF n = << >> THEN << >> ELSE Head(n) \o Flatten(Tail(n))

\* the value of the limb sequence modulo m, digit by digit in base 256
RECURSIVE ValueMod(_, _, _)
ValueMod(bytes, acc, m) ==
    IF bytes = << >> THEN acc
    ELSE ValueMod(Tail(bytes), (acc * 256 + Head(bytes)) % m, m)

\* C22: modn16(n, count, m) is the value of the big-endian multi-limb
\* integer n[0..count) modulo m, with 0 <= result < m, for every 16-bit
\* modulus m >= 2 and every limb sequence; it is 0 when m < 2, n is NULL or
\* count is 0.
C22_Modn16IsRemainder ==
    (num.op = "modn16") =>
        IF num.modn < 2 \/ num.null \/ Len(num.n) = 0
        THEN num.r = 0
        ELSE /\ num.r = ValueMod(Flatten(num.n), 0, num.modn)
             /\ 0 <= num.r /\ num.r < num.modn

\* a two-limb number has been reduced by a modulus above 2^15
C22_Witness ==
    /\ num.op = "modn16" /\ Len(num.n) = 2 /\ num.modn > HALF
    /\ num.n[1] # Limb(0, 0, 0, 0, 0, 0, 0, 0)
    /\ num.r # 0 /\ num.r # Rem64(num.n[2], num.modn)

\* ------------------------------------------------ scratch, loop heads, steps
\* C23: when a driver returns, every scratch vector that held
\* residue-dependent products during the call (tmp[] and tm2[] of the advance
\* block, and the temporary of the comparison primitives) holds only zeros.
C23_ScratchWipedOnReturn ==
    (pc = "ret") =>
        /\ scr.tmp = ZeroBlock /\ scr.tm2 = ZeroBlock
        /\ scr.loc = ZeroBlock

C25_BufferFilledFromZero ==
    (pc = "ret" /\ buf /\ count >= 1) =>
        /\ Written = 1 .. count
        /\ DOMAIN out = 1 .. count

\* C26: within one invocation the plain driver tests the candidates that are
\* 1 or 5 modulo 6 from its start upward, each once and in increasing order,
\* going on by 4 after a 6k+1 candidate and by 2 after a 6k+5 candidate; it
\* never tests a candidate of another residue, and mod6 is the residue of the
\* candidate tested.
C26_PlainCandidateOrder ==
    (fn = "plain_advance_l") =>
        /\ \A k \in DOMAIN tested :
               /\ tested[k].mod6 \in {1, 5}
               /\ tested[k].mod6 = tested[k].lsb % 6
               /\ tested[k].lsb >= entry.lsb
        /\ (tested # << >>) =>
               \A c \in entry.lsb .. (tested[1].lsb - 1) : c % 6 \notin {1, 5}
        /\ \A k \in 1 .. (Len(tested) - 1) :
               tested[k + 1].lsb =
                   tested[k].lsb + (IF tested[k].mod6 = 1 THEN 4 ELSE 2)

\* a plain call that started on a 6k+5 candidate has tested it, the 6k+1
\* candidate two above it, and the 6k+5 candidate four above that
C26_Witness ==
    /\ fn = "plain_advance_l" /\ Len(tested) >= 3
    /\ tested[1].lsb = entry.lsb /\ tested[1].mod6 = 5
    /\ tested[2].lsb = entry.lsb + 2 /\ tested[3].lsb = entry.lsb + 6

\* the skip loops of the code run while !(skip >> 14): the largest skip they
\* hand to the remaining lanes is the first multiple of 6 from 2^14 on
SkipShift == 14

\* the same with a loop that runs while !(skip >> 15)
LargestSkip_shift15 == 6 * ((2 ^ (SkipShift + 1) + 5) \div 6)

LargestSkip == 6 * ((2 ^ SkipShift + 5) \div 6)

\* a 16-bit addition that does not carry
NoCarry(v, add) == v + add <= U16 - 1

RestLanes(f) == {i \in Lanes : (i \div BlockLanes) \in rest_blocks_of(f)}

\* the state the rest test is applied to: the pending skip has been added to
\* the lanes past the first block
AtRestTest == IF skip # 0 THEN advance_rest_of(fn, ps, skip) ELSE ps

FirstCandidate(q) ==
    CHOOSE c \in q .. (q + 5) :
        c % 6 \in {1, 5} /\ \A d \in q .. (c - 1) : d % 6 \notin {1, 5}

\* C29: the initial advance of the plain driver is 1, 0, 3, 2, 1, 0 for
\* mod6 = 0 .. 5, the smallest step that reaches mod6 in {1, 5}; a start at
\* 6k+1 or 6k+5 is not skipped and is the first candidate tested: the state
\* stays on the first candidate until it is tested, and nothing is tested
\* before it.
C29_PlainInitialTransition ==
    /\ \A m \in 0 .. 5 :
           /\ prime_mod6_advance(m) = <<1, 0, 3, 2, 1, 0>>[m + 1]
           /\ m + prime_mod6_advance(m) = FirstCandidate(m)
    /\ (fn = "plain_advance_l" /\ count >= 1) =>
           /\ (tested = << >>) => ps.lsb = FirstCandidate(entry.lsb)
           /\ (tested # << >>) =>
                  /\ tested[1].lsb = FirstCandidate(entry.lsb)
                  /\ entry.mod6 \in {1, 5} => tested[1].lsb = entry.lsb

\* a plain call entered on a 6k+1 candidate has returned; the first
\* candidate it tested is the one it was entered on, the second is four above
C29_Witness ==
    /\ fn = "plain_advance_l" /\ pc = "ret" /\ count >= 1
    /\ entry.mod6 = 1 /\ Len(tested) >= 2
    /\ tested[1].lsb = entry.lsb /\ tested[2].lsb = entry.lsb + 4

\* C30: the initialisation of the twin and safe drivers advances the state
\* by (11 - mod6) mod 6 and lands on the smallest candidate >= Q with
\* mod6 = 5; applied a second time, as the safe driver does after
\* init_search, it advances by 0 and changes nothing.
C30_TwinSafeInitialTransition ==
    /\ (pc \in {"idle", "ret"}
        /\ TypeOf(ps.mode) \in {SIMD_PRIMETYPE_TWIN, SIMD_PRIMETYPE_SAFE}) =>
           LET s1 == scan_twin_or_safeprime(ps)
           IN  /\ s1.lsb - ps.lsb = (11 - ps.mod6) % 6
               /\ s1.lsb >= ps.lsb /\ s1.lsb < ps.lsb + 6
               /\ s1.lsb % 6 = 5 /\ s1.mod6 = 5
               /\ scan_twin_or_safeprime(s1) = s1
               /\ drive(Frame, 1, TRUE).ps = s1
    /\ (pc = "sieve" /\ count >= 1 /\ skip = 0) =>
           /\ ps.mod6 = 5 /\ ps.lsb % 6 = 5 /\ ps.lsb >= entry.lsb
           /\ (wr = 0 /\ ps.lsb < entry.lsb + 6) =>
                  ps.lsb - entry.lsb = (11 - entry.mod6) % 6

\* the safe driver stands at the head of its loop after a call entered on a
\* multiple of 6: the state has moved up by 5, once
C30_Witness ==
    /\ pc = "sieve" /\ fn \in SafeFns /\ count >= 1 /\ wr = 0 /\ skip = 0
    /\ entry.mod6 = 0 /\ entry.lsb > 0
    /\ ps.lsb = entry.lsb + 5 /\ ps.mod6 = 5

====
